---- MODULE Spec2Model ----
(***************************************************************************)
(* BriLeX dental furnace controller (server.js): the control tick, the     *)
(* actuator drivers, the PID regulator, the program executor and the       *)
(* command handlers, as a state machine.                                   *)
(*                                                                         *)
(* Units.  Temperatures are integers in twentieths of a degree Celsius     *)
(* (a thermocouple sample has 0.1 C resolution, the mean of two samples    *)
(* 0.05 C).  Time is in milliseconds (Date.now()).  Heater duty and PID    *)
(* output are tenths of a percent (calculate rounds to 0.1).  PID gains    *)
(* are hundredths.  The PID integral is in (twentieth-degree x ms), i.e.   *)
(* 1/20000 C.s.  Arithmetic on JS doubles is carried out in these fixed-   *)
(* point units; the non-finite doubles a gain or an output can take are    *)
(* the three tokens PosInf, NegInf and NaN.                                *)
(*                                                                         *)
(* Asynchrony.  Every async handler is a task: a list of chunks (k), each  *)
(* chunk being the synchronous code up to and including the next awaited   *)
(* GPIO operation.  With the GPIO daemon connected (hw) a task yields to   *)
(* the event loop after each awaited GPIO operation, so other handlers     *)
(* interleave there; without it the helpers return at once and a handler   *)
(* runs to completion (awaits of settled promises only run microtasks).    *)
(* sleep() always yields.                                                  *)
(*                                                                         *)
(* Time.  The clock moves in steps of one tick period.  An awaited GPIO    *)
(* operation completes in far less than that, and the event loop runs a    *)
(* due timer as soon as it is free, so the clock moves only when no        *)
(* handler is ready to continue and no timer is due; AdvanceSlow is the    *)
(* exception, a daemon that takes a tick period to answer.  gpio.connected *)
(* (hw) is fixed for a run, except where GpioDisconnect drops it.          *)
(***************************************************************************)
EXTENDS Integers, Sequences, FiniteSets, TLC

VARIABLES systemState, pid, pins, timers, tasks, proc, hist,
          userPrograms, userProgramsFile, now, tickDue, doorPin, emergencyPin,
          hw, events

vars == <<systemState, pid, pins, timers, tasks, proc, hist,
          userPrograms, userProgramsFile, now, tickDue, doorPin, emergencyPin,
          hw, events>>

-----------------------------------------------------------------------------
(* Bounds of the model *)

\* number of tick periods the clock may stand past a whole minute
MaxFine == 3
\* number of whole minutes the clock may reach
MaxMinutes == 5
\* number of whole minutes the clock may reach in the run of a built-in program
MaxScenarioMinutes == 51
\* number of commands, signals and input changes in a run
MaxEvents == 3
\* the error log is counted up to this many entries
MaxErrLog == 65
\* number of tick periods the clock may reach while thermocouple reads fail
MaxErrorTicks == 34
\* consecutive ticks without a sample are counted up to this many
MaxNoSample == 3

-----------------------------------------------------------------------------
(* Program constants *)

TICK_MS == 500
FAN_OFF_DELAY_MS == 300000
SSR_TEST_PULSES == 3
SSR_TEST_SLEEP_MS == 1000
SSR_ON_THRESHOLD == 5
KP_DEFAULT == 320
KI_DEFAULT == 8
KD_DEFAULT == 150
KP_MAX == 500
KP_MIN == 200
INTEGRAL_LIMIT == 50
OUTPUT_MAX == 100
TEMP_MAX == 1400
TEMP_MIN == -50
SIM_FLOOR == 20
INITIAL_TEMP == 25
VACUUM_DEFAULT == -80

MS_PER_SEC == 1000
SEC_PER_MIN == 60
MINUTE_MS == SEC_PER_MIN * MS_PER_SEC

\* null (startTime, a thermocouple read without a sample); Date.now() is counted
\* from the start of the process, so that no timestamp equals it
NULL == -1

\* the non-finite doubles, beyond every finite value the model computes
PosInf == 2 * 10^9
NegInf == -PosInf
NaN == NegInf - 1
IsFinite(x) == x \notin {PosInf, NegInf, NaN}

Abs(x) == IF x < 0 THEN -x ELSE x
Min2(a, b) == IF a < b THEN a ELSE b
Max2(a, b) == IF a > b THEN a ELSE b

\* degrees Celsius to twentieths
Deg(c) == c * 20

-----------------------------------------------------------------------------
(* JS double arithmetic on values that may be non-finite *)

\* a * b for a gain g (finite, PosInf or NegInf) and a finite x, where
\* fin is the product when g is finite
JsMulGain(g, x, fin) ==
    IF IsFinite(g) THEN fin
    ELSE IF x = 0 THEN NaN
    ELSE IF (g = PosInf) = (x > 0) THEN PosInf ELSE NegInf

JsAdd(a, b) ==
    IF a = NaN \/ b = NaN THEN NaN
    ELSE IF a = PosInf THEN (IF b = NegInf THEN NaN ELSE PosInf)
    ELSE IF a = NegInf THEN (IF b = PosInf THEN NaN ELSE NegInf)
    ELSE IF b \in {PosInf, NegInf} THEN b
    ELSE a + b

\* Math.max(lo, Math.min(hi, x)) for finite lo <= hi: NaN stays NaN
JsClamp(lo, hi, x) ==
    IF x = NaN THEN NaN
    ELSE IF x = PosInf THEN hi
    ELSE IF x = NegInf THEN lo
    ELSE Max2(lo, Min2(hi, x))

-----------------------------------------------------------------------------
(* Program catalog *)

Step(temp, time, vacuum, hold, ramp) ==
    [temp |-> temp, time |-> time, vacuum |-> vacuum, hold |-> hold, ramp |-> ramp]

\* the built-in program database
programs ==
    (1 :> [name |-> "IPS e.max CAD", steps |-> <<Step(850, 25, -95, 5, 15)>>]) @@
    (2 :> [name |-> "Zirkonyum",
           steps |-> <<Step(600, 30, 0, 10, 20), Step(1530, 120, 0, 15, 45)>>]) @@
    (3 :> [name |-> "Glaze", steps |-> <<Step(770, 15, -60, 3, 10)>>]) @@
    (4 :> [name |-> "Kristalizasyon", steps |-> <<Step(850, 30, -90, 5, 15)>>]) @@
    (5 :> [name |-> "Metal Seramik", steps |-> <<Step(960, 35, -85, 8, 18)>>]) @@
    (6 :> [name |-> "Feldspat Seramik", steps |-> <<Step(900, 20, -75, 5, 12)>>])

\* ids a save can allocate in the model: the first ids after the built-ins
MaxUserPrograms == 2
UserIds == 7 .. (6 + MaxUserPrograms)
\* keys userPrograms can have in the model
ProgramIds == 1 .. (6 + MaxUserPrograms)

Absent == [present |-> FALSE, name |-> "", steps |-> <<>>]
UserProgram(name, steps) == [present |-> TRUE, name |-> name, steps |-> steps]

\* contents user_programs.json can have at startup (written by earlier saves)
NoUserPrograms == [i \in ProgramIds |-> Absent]
QuickCatalog ==
    [i \in ProgramIds |-> IF i = 7 THEN UserProgram("Quick", <<Step(700, 0, -50, 0, 0)>>)
                        ELSE Absent]
TwoStepCatalog ==
    [i \in ProgramIds |-> IF i = 7
                        THEN UserProgram("TwoStep",
                               <<Step(700, 1, 0, 0, 0), Step(900, 1, -50, 0, 0)>>)
                        ELSE Absent]
UserCatalogs == {NoUserPrograms, QuickCatalog}

IsBuiltin(id) == id \in DOMAIN programs
IsUser(id) == id \in ProgramIds /\ userPrograms[id].present

\* programs[id] || userPrograms[id]  (present = FALSE: neither exists)
Lookup(id) ==
    IF IsBuiltin(id) THEN UserProgram(programs[id].name, programs[id].steps)
    ELSE IF IsUser(id) THEN userPrograms[id]
    ELSE Absent

\* { ...programs[id], ...userPrograms[id] }: the user entry's fields win
Merged(id) ==
    IF IsUser(id) THEN userPrograms[id]
    ELSE IF IsBuiltin(id) THEN UserProgram(programs[id].name, programs[id].steps)
    ELSE Absent

\* a step's total time without its ramp
StepTotalTimeNoRamp(st) == st.time + st.hold

\* (ramp || 0) + time + (hold || 0), in minutes
StepTotalTime(st) == st.ramp + st.time + st.hold

SetMax(S) == CHOOSE x \in S : \A y \in S : y <= x

\* keys of { ...programs, ...userPrograms }
CatalogKeys(up) == DOMAIN programs \cup {i \in ProgramIds : up[i].present}

\* an allocator that numbers a new program after the user programs only
newIdByCount(up) == Cardinality({i \in ProgramIds : up[i].present}) + 1

\* Math.max(...keys, 0) + 1
newId(up) == SetMax(CatalogKeys(up) \cup {0}) + 1

\* JSON.stringify of a number: a non-finite number is written as null
JsonNumber(x) == IF IsFinite(x) THEN x ELSE NULL

JsonStep(st) == [f \in DOMAIN st |-> JsonNumber(st[f])]

\* the document JSON.stringify(userPrograms) denotes: one member per own key
JsonStringify(up) ==
    [i \in ProgramIds |->
        IF up[i].present
        THEN UserProgram(up[i].name, [k \in 1 .. Len(up[i].steps) |-> JsonStep(up[i].steps[k])])
        ELSE Absent]

\* saveUserPrograms: the whole catalog replaces the file (the write is taken
\* to succeed)
saveUserPrograms(up) == JsonStringify(up)

\* loadUserPrograms: userPrograms = JSON.parse(data)
loadUserPrograms(file) == file

-----------------------------------------------------------------------------
(* AdvancedPIDController *)

PidInit(t) ==
    [kp |-> KP_DEFAULT, ki |-> KI_DEFAULT, kd |-> KD_DEFAULT,
     lastError |-> 0, integral |-> 0, lastTime |-> t]

IntegralHi == INTEGRAL_LIMIT * 20000
IntegralLo == -IntegralHi

\* clamp(integral + error * dt) to the integral limits, evaluated without
\* forming a product beyond the limits
Integrate(integral, error, dt) ==
    IF error = 0 THEN Max2(IntegralLo, Min2(IntegralHi, integral))
    ELSE IF error > 0
         THEN IF dt >= ((IntegralHi - integral) \div error) + 1 THEN IntegralHi
              ELSE Max2(IntegralLo, integral + error * dt)
         ELSE IF dt >= ((integral - IntegralLo) \div (-error)) + 1 THEN IntegralLo
              ELSE Min2(IntegralHi, integral + error * dt)

\* kd * derivative in thousandths of a percent:
\* kd/100 * ((dError/20) / (dt/1000)) * 1000 = kd * dError * 500 / dt
DTerm(kd, dError, dt) ==
    LET a == kd * dError
    IN  (a \div dt) * 500 + ((a % dt) * 500) \div dt

\* |derivative| < 1 C/s
DerivativeSmall(dError, dt) == Abs(dError) * 50 < dt

adaptivetune(kp, error, dError, dt) ==
    IF Abs(error) > Deg(50)
    THEN (IF kp = PosInf THEN KP_MAX
          ELSE IF kp = NegInf THEN NegInf
          ELSE Min2((kp * 101) \div 100, KP_MAX))
    ELSE IF Abs(error) < Deg(5) /\ DerivativeSmall(dError, dt)
    THEN (IF kp = PosInf THEN PosInf
          ELSE IF kp = NegInf THEN KP_MIN
          ELSE Max2((kp * 99) \div 100, KP_MIN))
    ELSE kp

\* the raw PID sum in thousandths of a percent
PidSum(p, error, integral, dError, dt) ==
    JsAdd(JsAdd(JsMulGain(p.kp, error, (p.kp * error) \div 2),
                JsMulGain(p.ki, integral, (p.ki * integral) \div 2000)),
          JsMulGain(p.kd, dError, DTerm(p.kd, dError, dt)))

\* Math.round(output * 10) / 10 of a clamped output, in tenths of a percent
RoundTenths(outMilli) == IF outMilli = NaN THEN NaN ELSE (outMilli + 50) \div 100

\* calculate(setpoint, current) at time t: [pid |-> new state, output |-> duty]
calculate(p, setpoint, current, t) ==
    LET dt == Max2(t - p.lastTime, 1)
        error == setpoint - current
        integral == Integrate(p.integral, error, dt)
        dError == error - p.lastError
        sum == PidSum(p, error, integral, dError, dt)
        output == JsClamp(0, OUTPUT_MAX * 1000, sum)
    IN  IF current = NaN \/ p.integral = NaN \/ p.lastError = NaN
        THEN \* a NaN operand makes the error, the integral and the sum NaN, and
             \* every comparison of adaptivetune false
             [pid |-> [p EXCEPT !.integral = NaN, !.lastError = NaN, !.lastTime = t],
              output |-> NaN]
        ELSE [pid |-> [p EXCEPT !.integral = integral,
                                !.kp = adaptivetune(p.kp, error, dError, dt),
                                !.lastError = error,
                                !.lastTime = t],
              output |-> RoundTenths(output)]

\* a reset that leaves the time of the last calculate as it is
resetKeepTime(p, t) == [p EXCEPT !.lastError = 0, !.integral = 0]

reset(p, t) == [p EXCEPT !.lastError = 0, !.integral = 0, !.lastTime = t]

setParameters(p, kp, ki, kd) == [p EXCEPT !.kp = kp, !.ki = ki, !.kd = kd]

-----------------------------------------------------------------------------
(* The program state as one value, so that the helpers are functions on it *)

\* w.aw: whether the chunk just executed ended in an awaited GPIO operation
World ==
    [s |-> systemState, pid |-> pid, pins |-> pins, timers |-> timers,
     tasks |-> tasks, proc |-> proc, hist |-> hist, aw |-> FALSE]

Interlock(w) == w.s.emergency \/ w.s.doorOpen

\* errors.push(...), counted up to MaxErrLog
PushError(w) == [w EXCEPT !.s.errors = Min2(@ + 1, MaxErrLog)]

\* code of task t to run when it continues: items go in front of what is left
Push(w, t, items) == [w EXCEPT !.tasks[t].k = items \o @]

-----------------------------------------------------------------------------
(* Actuator drivers.  What a driver does after its awaited GPIO write is an  *)
(* item of its own (heater_zero, vacuum_on, vacuum_off, fan_set), run when   *)
(* the task continues.                                                       *)

\* the SSR level for a duty with no interlock active
SsrLevel(clampedPower) == IF clampedPower > SSR_ON_THRESHOLD * 10 THEN 1 ELSE 0

\* setHeaterPowerAdvanced without the interlock gate
setHeaterPowerUngated(w, t, power) ==
    LET clampedPower == JsClamp(0, OUTPUT_MAX * 10, power)
        w1 == [w EXCEPT !.s.heaterPower = clampedPower]
    IN  IF ~hw THEN w1
        ELSE [w1 EXCEPT !.pins.ssr = SsrLevel(clampedPower), !.aw = TRUE]

setHeaterPowerAdvanced(w, t, power) ==
    LET clampedPower == JsClamp(0, OUTPUT_MAX * 10, power)
        w1 == [w EXCEPT !.s.heaterPower = clampedPower]
    IN  IF ~hw THEN w1
        ELSE IF Interlock(w1)
             THEN Push([w1 EXCEPT !.pins.ssr = 0, !.aw = TRUE], t, <<"heater_zero">>)
             ELSE [w1 EXCEPT !.pins.ssr = SsrLevel(clampedPower), !.aw = TRUE]

setVacuumControl(w, t, enable, targetPressure) ==
    IF ~hw
    THEN [w EXCEPT !.s.vacuum = IF enable THEN targetPressure ELSE 0,
                   !.s.vacuumTarget = IF enable THEN targetPressure ELSE 0]
    ELSE IF enable /\ ~w.s.emergency /\ ~w.s.doorOpen
         THEN Push([w EXCEPT !.pins.vacuum = 1,
                             !.tasks[t].loc.vac = targetPressure,
                             !.aw = TRUE], t, <<"vacuum_on">>)
         ELSE Push([w EXCEPT !.pins.vacuum = 0, !.aw = TRUE], t, <<"vacuum_off">>)

\* setVacuumControl after the write of 1
vacuumOn(w, t) ==
    [w EXCEPT !.s.vacuumTarget = w.tasks[t].loc.vac,
              !.s.vacuum = Max2(@ - 5, w.tasks[t].loc.vac)]

\* setVacuumControl after the write of 0
vacuumOff(w) ==
    [w EXCEPT !.s.vacuumTarget = 0, !.s.vacuum = Min2(@ + 10, 0)]

setFanControl(w, t, enable) ==
    IF ~hw THEN [w EXCEPT !.s.fan = enable]
    ELSE Push([w EXCEPT !.pins.fan = IF enable THEN 1 ELSE 0,
                        !.tasks[t].loc.fan = enable,
                        !.aw = TRUE], t, <<"fan_set">>)

\* history: what the heater and vacuum calls of the control tick, and the
\* vacuum calls of the vacuum test, were asked, with
\* which interlock flags and in which run state (run: running and not paused
\* at the call), and what they left recorded and written
LogIssue(w, t, e) ==
    IF t \in {"tick", "vac"} THEN [w EXCEPT !.hist.log = @ \cup {e}] ELSE w

\* a heater call of task t, and the history entry made when it returns
HeaterIssue(w, t, power) ==
    setHeaterPowerAdvanced(
        Push([w EXCEPT !.tasks[t].loc.lock = Interlock(w),
                       !.tasks[t].loc.run = w.s.isRunning /\ ~w.s.isPaused,
                       !.tasks[t].loc.req = power], t, <<"heater_log">>),
        t, power)

HeaterLog(w, t) ==
    LogIssue(w, t, [kind |-> "heater", lock |-> w.tasks[t].loc.lock,
                    run |-> w.tasks[t].loc.run,
                    req |-> w.tasks[t].loc.req,
                    duty |-> w.s.heaterPower,
                    pin |-> IF hw THEN w.pins.ssr ELSE NULL])

\* a vacuum call of task t, and the history entry made when it returns
VacuumIssue(w, t, enable, targetPressure) ==
    setVacuumControl(
        Push([w EXCEPT !.tasks[t].loc.lock = Interlock(w),
                       !.tasks[t].loc.run = w.s.isRunning /\ ~w.s.isPaused,
                       !.tasks[t].loc.req = IF enable THEN 1 ELSE 0], t, <<"vacuum_log">>),
        t, enable, targetPressure)

VacuumLog(w, t) ==
    LogIssue(w, t, [kind |-> "vacuum", lock |-> w.tasks[t].loc.lock,
                    run |-> w.tasks[t].loc.run,
                    req |-> w.tasks[t].loc.req,
                    duty |-> w.s.vacuumTarget,
                    pin |-> IF hw THEN w.pins.vacuum ELSE NULL])

-----------------------------------------------------------------------------
(* Sensors *)

\* history: for how many consecutive control ticks (counted up to 2) the
\* input just read by the tick has been low
NoteLevel(w, t, input) ==
    IF t # "tick" THEN w
    ELSE [w EXCEPT !.hist[input] = IF w.tasks[t].loc.level = 0 THEN Min2(@ + 1, 2) ELSE 0]

\* readSensors: the read of the door input (active low)
readSensors(w, t) ==
    IF ~hw THEN w
    ELSE Push([w EXCEPT !.tasks[t].loc.level = doorPin, !.aw = TRUE], t,
              <<"sensors_door">>)

\* readSensors after the door read: the door flag, and the read of the
\* emergency input (active low)
readSensorsDoor(w, t) ==
    Push([NoteLevel(w, t, "doorLow") EXCEPT
                   !.s.doorOpen = (w.tasks[t].loc.level = 0),
                   !.tasks[t].loc.level = emergencyPin,
                   !.aw = TRUE], t, <<"sensors_emergency">>)

\* readSensors after the emergency read
readSensorsEmergency(w, t) ==
    [NoteLevel(w, t, "emergencyLow") EXCEPT !.s.emergency = (w.tasks[t].loc.level = 0)]

\* decoding of a 16-bit MAX6675 frame: the sample in twentieths, or NULL
FrameTemperature(rawValue) == ((rawValue \div 8) % 4096) * 5
FrameOpen(rawValue) == (rawValue \div 4) % 2 = 1
FrameInvalid(rawValue) == rawValue = 65535 \/ rawValue = 0
\* Math.round(temperature * 10) / 10
RoundSample(t20) == ((t20 + 1) \div 2) * 2

\* a decoder without the test of the open-thermocouple bit
DecodeFrameNoOpenTest(rawValue) ==
    IF FrameInvalid(rawValue) THEN NULL
    ELSE IF FrameTemperature(rawValue) < Deg(TEMP_MIN)
            \/ FrameTemperature(rawValue) > Deg(TEMP_MAX) THEN NULL
    ELSE RoundSample(FrameTemperature(rawValue))

DecodeFrame(rawValue) ==
    IF FrameInvalid(rawValue) THEN NULL
    ELSE IF FrameOpen(rawValue) THEN NULL
    ELSE IF FrameTemperature(rawValue) < Deg(TEMP_MIN)
            \/ FrameTemperature(rawValue) > Deg(TEMP_MAX) THEN NULL
    ELSE RoundSample(FrameTemperature(rawValue))

\* the simulated sample: heating toward the target while running, else cooling
SimulatedSample(w, noise) ==
    LET baseTemp == w.s.temperatures.current
        targetTemp == w.s.temperatures.target
    IN  IF baseTemp = NaN THEN NaN
        ELSE IF w.s.isRunning /\ targetTemp > baseTemp
        THEN (IF w.s.heaterPower = NaN THEN NaN
              ELSE Min2(targetTemp, baseTemp + (w.s.heaterPower \div 100) + noise))
        ELSE Max2(Deg(SIM_FLOOR), baseTemp - 2 + noise)

\* readMAX6675Advanced: [w |-> state after the read, reading |-> sample or NULL]
readMAX6675Advanced(w, rawValue, noise) ==
    IF ~hw THEN [w |-> w, reading |-> SimulatedSample(w, noise)]
    ELSE [w |-> IF ~FrameInvalid(rawValue) /\ FrameOpen(rawValue)
                THEN [PushError(w) EXCEPT !.aw = TRUE]
                ELSE [w EXCEPT !.aw = TRUE],
          reading |-> DecodeFrame(rawValue)]

-----------------------------------------------------------------------------
(* Tasks: the async handlers in progress *)

TaskIds == {"tick", "tick2", "cmd", "ssr", "fan", "sigint", "uncaught", "sens", "vac"}

\* a task's local variables
LocInit ==
    [raw |-> NULL, tc1 |-> NULL, tc2 |-> NULL, vac |-> 0, total |-> 0, len |-> 0,
     sawEmergency |-> FALSE, sawDoor |-> FALSE, branch |-> "", iter |-> 0, wake |-> 0,
     level |-> 1, lock |-> FALSE, run |-> FALSE, req |-> 0, fan |-> FALSE]

TaskIdle == [k |-> <<>>, loc |-> LocInit]

\* the chunks of mainControlLoop up to its checks, and of emergencyStop,
\* pauseProgram and stopProgram
TickItems == <<"t_sensors", "t_tc1", "t_tc2", "t_fuse">>
EmergencyStopItems == <<"es_begin", "vacOff", "fanOn", "es_end">>
PauseProgramItems == <<"pp_begin", "vacOff">>
StopProgramItems == <<"sp_begin", "vacOff", "fanOn", "sp_end">>
ShutdownItems == <<"heater0", "vacOff", "fanOff", "gpio_destroy", "exit">>

\* a fusion that takes the first valid reading instead of the mean
FuseTemperaturesFirst(w, tc1Reading, tc2Reading) ==
    LET w1 == IF tc1Reading # NULL THEN [w EXCEPT !.s.temperatures.tc1 = tc1Reading] ELSE w
        w2 == IF tc2Reading # NULL THEN [w1 EXCEPT !.s.temperatures.tc2 = tc2Reading] ELSE w1
    IN  IF tc1Reading # NULL THEN [w2 EXCEPT !.s.temperatures.current = tc1Reading]
        ELSE IF tc2Reading # NULL THEN [w2 EXCEPT !.s.temperatures.current = tc2Reading]
        ELSE w2

\* mainControlLoop, lines 486-496: store the samples and fuse them
FuseTemperatures(w, tc1Reading, tc2Reading) ==
    LET w1 == IF tc1Reading # NULL THEN [w EXCEPT !.s.temperatures.tc1 = tc1Reading] ELSE w
        w2 == IF tc2Reading # NULL THEN [w1 EXCEPT !.s.temperatures.tc2 = tc2Reading] ELSE w1
    IN  IF tc1Reading # NULL /\ tc2Reading # NULL
        THEN [w2 EXCEPT !.s.temperatures.current =
                 IF tc1Reading = NaN \/ tc2Reading = NaN THEN NaN
                 ELSE (tc1Reading + tc2Reading) \div 2]
        ELSE IF tc1Reading # NULL THEN [w2 EXCEPT !.s.temperatures.current = tc1Reading]
        ELSE IF tc2Reading # NULL THEN [w2 EXCEPT !.s.temperatures.current = tc2Reading]
        ELSE w2

\* history: consecutive ticks of a run that obtained no valid sample
CountNoSample(w, tc1Reading, tc2Reading) ==
    [w EXCEPT !.hist.noSample =
        IF w.s.isRunning /\ tc1Reading = NULL /\ tc2Reading = NULL
        THEN Min2(@ + 1, MaxNoSample) ELSE 0]

\* mainControlLoop, lines 498-502
EmergencyCheck(w, t) ==
    IF w.s.emergency /\ w.s.isRunning
    THEN Push([w EXCEPT !.tasks[t].loc.sawEmergency = TRUE], t,
              EmergencyStopItems \o <<"t_505">>)
    ELSE Push(w, t, <<"t_505">>)

\* mainControlLoop with a door check that also resumes a paused run once the
\* door is closed
DoorCheckAutoResume(w, t) ==
    IF w.s.doorOpen /\ w.s.isRunning
    THEN Push([w EXCEPT !.tasks[t].loc.sawDoor = TRUE, !.hist.pausedBy = "door"], t,
              PauseProgramItems \o <<"t_511">>)
    ELSE Push([w EXCEPT !.s.isPaused = FALSE], t, <<"t_511">>)

\* mainControlLoop, lines 504-508
DoorCheck(w, t) ==
    IF w.s.doorOpen /\ w.s.isRunning
    THEN Push([w EXCEPT !.tasks[t].loc.sawDoor = TRUE, !.hist.pausedBy = "door"], t,
              PauseProgramItems \o <<"t_511">>)
    ELSE Push(w, t, <<"t_511">>)

\* mainControlLoop with an else branch that leaves the heater as it is
ProgramControlVacuumOnly(w, t) ==
    IF w.s.isRunning /\ ~w.s.isPaused
    THEN Push([w EXCEPT !.tasks[t].loc.branch = "run"], t,
              <<"ep_begin", "ep_vac", "ep_time", "t_end">>)
    ELSE Push([w EXCEPT !.tasks[t].loc.branch = "idle"], t,
              <<"el_vac", "t_end">>)

\* mainControlLoop, lines 510-517
ProgramControl(w, t) ==
    IF w.s.isRunning /\ ~w.s.isPaused
    THEN Push([w EXCEPT !.tasks[t].loc.branch = "run"], t,
              <<"ep_begin", "ep_vac", "ep_time", "t_end">>)
    ELSE Push([w EXCEPT !.tasks[t].loc.branch = "idle"], t,
              <<"el_heater", "el_vac", "t_end">>)

\* mainControlLoop, lines 519-523; the first tick is awaited before app.listen
TickEnd(w) ==
    [w EXCEPT !.hist.last = "tick_end",
              !.proc = IF @ = "boot" THEN "up" ELSE @]

\* history of the resume check and of the completion: nothing recorded
ResumeNone ==
    [pending |-> FALSE, elapsed |-> 0, shift |-> 0, checked |-> FALSE, same |-> FALSE]
DoneNone == [yes |-> FALSE, elapsed |-> 0, total |-> 0]

\* emergencyStop up to its first await
emergencyStopBegin(w, t) ==
    HeaterIssue([w EXCEPT !.s.isRunning = FALSE,
                          !.s.isPaused = FALSE,
                          !.s.temperatures.target = 0,
                          !.hist.latched = @ \/ w.s.isRunning,
                          !.hist.pausedBy = "",
                          !.hist.resume = ResumeNone], t, 0)

\* pauseProgram up to its first await
pauseProgramBegin(w, t) ==
    HeaterIssue([w EXCEPT !.s.isPaused = TRUE, !.hist.resume = ResumeNone], t, 0)

\* stopProgram up to its first await
stopProgramBegin(w, t) ==
    HeaterIssue([w EXCEPT !.s.isRunning = FALSE,
                          !.s.isPaused = FALSE,
                          !.s.startTime = NULL,
                          !.s.elapsedTime = 0,
                          !.s.currentStep = 0,
                          !.s.temperatures.target = 0,
                          !.hist.latched = IF t = "cmd" THEN FALSE ELSE @,
                          !.hist.pausedBy = "",
                          !.hist.resume = ResumeNone], t, 0)

\* stopProgram after its last await: PID reset and the 5-minute fan timer; the
\* history notes the time of this most recent stop
stopProgramEnd(w) ==
    [w EXCEPT !.pid = reset(@, now),
              !.timers = @ \cup {now + FAN_OFF_DELAY_MS},
              !.hist.stopAt = now,
              !.hist.last = "stopped"]

\* emergencyStop after its last await
emergencyStopEnd(w) ==
    [w EXCEPT !.pid = reset(@, now), !.hist.last = "emergency_stopped"]

\* the callback of the fan timer
fanTimeout(w, t) ==
    IF ~w.s.isRunning THEN setFanControl(w, t, FALSE) ELSE w

\* executeProgram up to its first await (lines 533-551)
executeProgramBegin(w, t) ==
    LET currentProgram == Merged(w.s.currentProgram)
        idx == w.s.currentStep + 1
        currentStep == IF idx \in DOMAIN currentProgram.steps
                       THEN currentProgram.steps[idx] ELSE currentProgram.steps[1]
        r == calculate(w.pid, Deg(currentStep.temp), w.s.temperatures.current, now)
    IN  IF ~currentProgram.present
        THEN \* "Gecersiz program": return
             [w EXCEPT !.tasks[t].k = SubSeq(@, 3, Len(@))]
        ELSE IF currentProgram.steps = <<>>
        THEN \* currentStep is undefined: TypeError, caught by the loop's catch
             [PushError(w) EXCEPT !.tasks[t].k = <<>>,
                                  !.proc = IF @ = "boot" THEN "up" ELSE @]
        ELSE HeaterIssue([w EXCEPT !.s.temperatures.target = Deg(currentStep.temp),
                                   !.pid = r.pid,
                                   !.hist.pidOut = r.output,
                                   !.tasks[t].loc.vac = currentStep.vacuum,
                                   !.tasks[t].loc.total = StepTotalTime(currentStep),
                                   !.tasks[t].loc.len = Len(currentProgram.steps)],
                         t, r.output)

\* executeProgram, lines 553-558
executeProgramVacuum(w, t) ==
    LET vac == w.tasks[t].loc.vac
    IN  IF vac < 0 THEN VacuumIssue(w, t, TRUE, vac)
        ELSE VacuumIssue(w, t, FALSE, VACUUM_DEFAULT)

\* Math.floor((Date.now() - startTime) / 1000)
ElapsedSeconds(startTime) == (now - startTime) \div MS_PER_SEC

\* history: whether the first executeProgram after a resume computes the elapsed
\* time that was recorded when the run was resumed
NoteResumed(w, elapsed) ==
    IF w.hist.resume.pending
    THEN [w EXCEPT !.hist.resume.pending = FALSE,
                   !.hist.resume.checked = TRUE,
                   !.hist.resume.same = (elapsed = w.hist.resume.elapsed)]
    ELSE w

\* the sum of the steps' total times, in seconds
RECURSIVE ProgramTotalSeconds(_)
ProgramTotalSeconds(steps) ==
    IF steps = <<>> THEN 0
    ELSE StepTotalTime(Head(steps)) * SEC_PER_MIN + ProgramTotalSeconds(Tail(steps))

\* history: the elapsed run time at which the program completed
NoteDone(w, elapsed) ==
    [w EXCEPT !.hist.done =
        [yes |-> TRUE, elapsed |-> elapsed,
         total |-> ProgramTotalSeconds(Merged(w.s.currentProgram).steps)]]

\* executeProgram, lines 560-578
executeProgramTime(w, t) ==
    LET elapsed == ElapsedSeconds(w.s.startTime)
        loc == w.tasks[t].loc
        w1 == NoteResumed([w EXCEPT !.s.elapsedTime = elapsed], elapsed)
    IN  IF w.s.startTime = NULL THEN w
        ELSE IF elapsed >= loc.total * SEC_PER_MIN
        THEN IF w.s.currentStep < loc.len - 1
             THEN [w1 EXCEPT !.s.currentStep = @ + 1]
             ELSE Push(NoteDone(w1, elapsed), t, StopProgramItems)
        ELSE w1

\* the test pulse loop of POST /api/test/ssr
SsrTestLoop(w, t) ==
    IF w.tasks[t].loc.iter < SSR_TEST_PULSES
    THEN Push([w EXCEPT !.tasks[t].loc.iter = @ + 1], t,
              <<"heater100", "sleep", "heater0", "sleep", "ssr_loop">>)
    ELSE w

\* the SIGINT handler up to the stop of an active program
SigintBegin(w, t) ==
    IF w.s.isRunning
    THEN Push(w, t, StopProgramItems \o ShutdownItems)
    ELSE Push(w, t, ShutdownItems)

\* the uncaughtException handler
UncaughtBegin(w, t) ==
    IF w.s.isRunning
    THEN Push(w, t, EmergencyStopItems \o <<"exit">>)
    ELSE [w EXCEPT !.proc = "exited"]

\* one chunk of task t: the synchronous code up to the next await
Exec(w, t, item, inp) ==
    CASE item = "t_sensors" -> readSensors(w, t)
      [] item = "sensors_door" -> readSensorsDoor(w, t)
      [] item = "sensors_emergency" -> readSensorsEmergency(w, t)
      [] item = "t_tc1" ->
            LET r == readMAX6675Advanced(w, inp.raw, inp.noise1)
            IN  [r.w EXCEPT !.tasks[t].loc.tc1 = r.reading,
                            !.tasks[t].loc.raw = IF hw THEN inp.raw ELSE NULL]
      [] item = "t_tc2" ->
            LET r == readMAX6675Advanced(w, inp.raw, inp.noise2)
            IN  [r.w EXCEPT !.tasks[t].loc.tc2 = r.reading]
      [] item = "t_fuse" ->
            LET loc == w.tasks[t].loc
            IN  EmergencyCheck(
                    FuseTemperatures(CountNoSample(w, loc.tc1, loc.tc2), loc.tc1, loc.tc2), t)
      [] item = "t_505" -> DoorCheck(w, t)
      [] item = "t_511" -> ProgramControl(w, t)
      [] item = "t_end" -> TickEnd(w)
      [] item = "es_begin" -> emergencyStopBegin(w, t)
      [] item = "es_end" -> emergencyStopEnd(w)
      [] item = "pp_begin" -> pauseProgramBegin(w, t)
      [] item = "sp_begin" -> stopProgramBegin(w, t)
      [] item = "sp_end" -> stopProgramEnd(w)
      [] item = "ep_begin" -> executeProgramBegin(w, t)
      [] item = "ep_vac" -> executeProgramVacuum(w, t)
      [] item = "ep_time" -> executeProgramTime(w, t)
      [] item = "el_heater" -> HeaterIssue(w, t, 0)
      [] item = "el_vac" -> VacuumIssue(w, t, FALSE, VACUUM_DEFAULT)
      [] item = "vacOff" -> VacuumIssue(w, t, FALSE, VACUUM_DEFAULT)
      [] item = "fanOn" -> setFanControl(w, t, TRUE)
      [] item = "fanOff" -> setFanControl(w, t, FALSE)
      [] item = "heater0" -> HeaterIssue(w, t, 0)
      [] item = "heater100" -> HeaterIssue(w, t, OUTPUT_MAX * 10)
      [] item = "heater_zero" -> [w EXCEPT !.s.heaterPower = 0]
      [] item = "heater_log" -> HeaterLog(w, t)
      [] item = "vacuum_on" -> vacuumOn(w, t)
      [] item = "vacuum_off" -> vacuumOff(w)
      [] item = "vacuum_log" -> VacuumLog(w, t)
      [] item = "fan_set" -> [w EXCEPT !.s.fan = w.tasks[t].loc.fan]
      [] item = "timer_fan" -> fanTimeout(w, t)
      [] item = "sleep" -> [w EXCEPT !.tasks[t].loc.wake = now + SSR_TEST_SLEEP_MS]
      [] item = "vacuumTest" -> VacuumIssue(w, t, TRUE, -50)
      [] item = "sleep_vacuum" -> [w EXCEPT !.tasks[t].loc.wake = now + 3 * MS_PER_SEC]
      [] item = "ssr_loop" -> SsrTestLoop(w, t)
      [] item = "gpio_destroy" -> [w EXCEPT !.aw = hw]
      [] item = "exit" -> [w EXCEPT !.proc = "exited"]
      [] item = "respond" -> [w EXCEPT !.tasks[t].loc = LocInit]

\* run task t from its next chunk until it yields to the event loop, ends, or
\* the process exits
RECURSIVE Run(_, _, _)
Run(w, t, inp) ==
    IF w.tasks[t].k = <<>> \/ w.proc = "exited" THEN w
    ELSE LET item == Head(w.tasks[t].k)
             w1 == Exec([w EXCEPT !.tasks[t].k = Tail(@), !.aw = FALSE], t, item, inp)
         IN  IF w1.aw \/ item \in {"sleep", "sleep_vacuum"} THEN w1 ELSE Run(w1, t, inp)

Runnable(t) == tasks[t].k # <<>> /\ now >= tasks[t].loc.wake

\* start task t with the chunks `items` and run it to its first yield
Spawn(w, t, items, inp) ==
    Run([w EXCEPT !.tasks[t] = [k |-> items, loc |-> LocInit]], t, inp)

-----------------------------------------------------------------------------
(* Inputs of the model *)

\* MAX6675 frames: bus error, 25 C
RawFrames == {0, 800}
\* MAX6675 frames of a failing thermocouple: bus error, open circuit
FaultFrames == {0, 4}
\* frames the sensor test reads: every 12-bit temperature with the open bit
\* clear and set, and frames with the device-id, state and dummy bits set
SensFrames ==
    {8 * c + 4 * o : c \in 0 .. (2^12 - 1), o \in {0, 1}} \cup {1, 2, 3, 2^15, 2^16 - 1}
\* the noise term of a simulated sample, in twentieths
Noises == {0}
\* program ids a start command carries (0: none given, 9: not in the catalog)
StartIds == {0, 2, 7, 9}
\* gains a tune command carries: the defaults, proportional only, and an
\* infinite derivative gain (the JSON number 1e999)
TuneGains ==
    { <<KP_DEFAULT, KI_DEFAULT, KD_DEFAULT>>,
      <<KP_MIN, 0, 0>>,
      <<KP_DEFAULT, KI_DEFAULT, PosInf>> }

\* a proportional gain of 1 alone: the duty is the error in degrees
UnitGains == { <<100, 0, 0>> }
\* MAX6675 frames of 844 C, 845 C and 846 C
ThresholdFrames == {8 * (4 * c) : c \in 844 .. 846}

NoInput == [raw |-> 0, noise1 |-> 0, noise2 |-> 0]

\* what a tick reads up to its first yield
TickStartInputs ==
    IF hw THEN {NoInput}
    ELSE {[raw |-> 0, noise1 |-> a, noise2 |-> b] : a \in Noises, b \in Noises}

\* the chunks of task t that end in a thermocouple read: the read of TC1
\* follows the emergency read of readSensors without a yield
ReadsTc1(t) == Head(tasks[t].k) \in {"sensors_emergency", "t_tc1"}
ReadsTc2(t) == Head(tasks[t].k) = "t_tc2"

\* what task t reads in its next chunk (the sensor test reads every frame on
\* TC1 and a bus error on TC2)
StepInputsFrom(t, frames) ==
    IF hw /\ t = "tick" /\ (ReadsTc1(t) \/ ReadsTc2(t))
    THEN {[raw |-> r, noise1 |-> 0, noise2 |-> 0] : r \in frames}
    ELSE IF hw /\ t = "sens" /\ ReadsTc1(t)
    THEN {[raw |-> r, noise1 |-> 0, noise2 |-> 0] : r \in SensFrames}
    ELSE {NoInput}

StepInputs(t) == StepInputsFrom(t, RawFrames)

\* what a whole tick reads
WholeTickInputs ==
    IF hw THEN {[raw |-> r, noise1 |-> 0, noise2 |-> 0] : r \in RawFrames}
    ELSE TickStartInputs

-----------------------------------------------------------------------------
(* Initial state: after module load, loadUserPrograms and setupGPIO, when    *)
(* startApplication has set the interval and is about to run the first tick *)

SystemStateInit ==
    [isRunning |-> FALSE, isPaused |-> FALSE, startTime |-> NULL, elapsedTime |-> 0,
     currentProgram |-> 1, currentStep |-> 0, totalSteps |-> 1,
     temperatures |-> [current |-> Deg(INITIAL_TEMP), target |-> 0,
                       tc1 |-> Deg(INITIAL_TEMP), tc2 |-> Deg(INITIAL_TEMP)],
     heaterPower |-> 0, vacuum |-> 0, vacuumTarget |-> 0, fan |-> FALSE,
     doorOpen |-> FALSE, emergency |-> FALSE, errors |-> 0]

HistInit ==
    [last |-> "", log |-> {}, latched |-> FALSE, noSample |-> 0, resume |-> ResumeNone,
     pausedBy |-> "", pidOut |-> 0, done |-> DoneNone, emergencyInRun |-> FALSE,
     stopAt |-> NULL, doorLow |-> 0, emergencyLow |-> 0]

InitWith(catalogs, modes) ==
    /\ systemState = SystemStateInit
    /\ pid = PidInit(0)
    /\ pins = [ssr |-> 0, vacuum |-> 0, fan |-> 0]
    /\ timers = {}
    /\ tasks = [t \in TaskIds |-> TaskIdle]
    /\ proc = "boot"
    /\ hist = HistInit
    /\ userPrograms \in catalogs
    /\ userProgramsFile = saveUserPrograms(userPrograms)
    /\ now = 0
    /\ tickDue = 0
    /\ doorPin = 1
    /\ emergencyPin = 1
    /\ hw \in modes
    /\ events = 0

Init == InitWith(UserCatalogs, BOOLEAN)

-----------------------------------------------------------------------------
(* Actions *)

\* the state every handler starts from
W0 == [World EXCEPT !.hist.last = ""]

Commit(w) ==
    /\ systemState' = w.s
    /\ pid' = w.pid
    /\ pins' = w.pins
    /\ timers' = w.timers
    /\ tasks' = w.tasks
    /\ proc' = w.proc
    /\ hist' = w.hist

\* the clock stays within MaxFine tick periods of a whole minute
ClockOk(t) ==
    /\ t \div MINUTE_MS <= MaxMinutes
    /\ t % MINUTE_MS <= MaxFine * TICK_MS

\* nothing is left for the event loop to run at the present time
Settled ==
    /\ \A t \in TaskIds : ~Runnable(t)
    /\ now < tickDue
    /\ \A d \in timers : now < d

\* a whole control tick from state w, reading inp
RECURSIVE TickToEnd(_, _)
TickToEnd(w, inp) ==
    IF w.tasks["tick"].k = <<>> \/ w.proc = "exited" THEN w
    ELSE TickToEnd(Run(w, "tick", inp), inp)

\* the control ticks of an idle controller change nothing but the history
IdleTickNoop ==
    /\ ~systemState.isRunning
    /\ \A t \in TaskIds : tasks[t].k = <<>>
    /\ \A inp \in WholeTickInputs :
          LET w == TickToEnd(Spawn(W0, "tick", TickItems, inp), inp)
          IN  /\ w.s = systemState
              /\ w.pid = pid
              /\ w.pins = pins
              /\ w.timers = timers

\* time passes (dt ms); the interval timer keeps its phase
Advance(dt) ==
    /\ proc # "exited"
    /\ Settled
    /\ now' = now + dt
    /\ tickDue' = Max2(tickDue, ((now + dt) \div TICK_MS) * TICK_MS)
    /\ hist' = [hist EXCEPT !.last = ""]
    /\ UNCHANGED <<systemState, pid, pins, timers, tasks, proc, userPrograms, userProgramsFile,
                   doorPin, emergencyPin, hw, events>>

\* one tick period passes
AdvanceTick ==
    /\ ClockOk(now + TICK_MS)
    /\ Advance(TICK_MS)

\* one tick period of a run passes
AdvanceRun ==
    /\ systemState.isRunning
    /\ now + TICK_MS <= MaxMinutes * MINUTE_MS
    /\ Advance(TICK_MS)

\* one tick period of the run of a built-in program, or of its cooldown, passes
AdvanceScenario ==
    /\ now + TICK_MS <= MaxScenarioMinutes * MINUTE_MS
    /\ Advance(TICK_MS)

\* a minute of a cooldown passes in which the control ticks change nothing
AdvanceIdle ==
    /\ timers # {}
    /\ ClockOk(now + MINUTE_MS)
    /\ IdleTickNoop
    /\ Advance(MINUTE_MS)

\* the door switch changes level
DoorChange ==
    /\ proc # "exited" /\ hw
    /\ events < MaxEvents
    /\ events' = events + 1
    /\ doorPin' = 1 - doorPin
    /\ hist' = [hist EXCEPT !.last = ""]
    /\ UNCHANGED <<systemState, pid, pins, timers, tasks, proc, userPrograms, userProgramsFile,
                   now, tickDue, emergencyPin, hw>>

\* the emergency button changes level; the history notes whether it became
\* active during a run
EmergencyChange ==
    /\ proc # "exited" /\ hw
    /\ events < MaxEvents
    /\ events' = events + 1
    /\ emergencyPin' = 1 - emergencyPin
    /\ hist' = [hist EXCEPT !.last = "",
                            !.emergencyInRun = (emergencyPin = 1 /\ systemState.isRunning)]
    /\ UNCHANGED <<systemState, pid, pins, timers, tasks, proc, userPrograms, userProgramsFile,
                   now, tickDue, doorPin, hw>>

\* mainControlLoop is called (at startup, then by the interval timer): the tick
\* up to its first yield
TickStart ==
    /\ proc # "exited"
    /\ tasks["tick"].k = <<>>
    /\ now >= tickDue
    /\ tickDue' = now + TICK_MS
    /\ \E inp \in TickStartInputs :
          Commit(Spawn([W0 EXCEPT !.hist.log = {}], "tick", TickItems, inp))
    /\ UNCHANGED <<userPrograms, userProgramsFile, now, doorPin, emergencyPin, hw, events>>

\* a tick period passes while a control tick waits for the GPIO daemon to
\* answer
AdvanceSlow ==
    /\ proc # "exited" /\ hw
    /\ tasks["tick"].k # <<>>
    /\ ClockOk(now + TICK_MS)
    /\ now' = now + TICK_MS
    /\ hist' = [hist EXCEPT !.last = ""]
    /\ UNCHANGED <<systemState, pid, pins, timers, tasks, proc, userPrograms, userProgramsFile,
                   tickDue, doorPin, emergencyPin, hw, events>>

\* the interval timer calls mainControlLoop while the call before it has not
\* returned: a second execution of the tick body, up to its first yield
TickOverlap ==
    /\ proc # "exited"
    /\ tasks["tick"].k # <<>>
    /\ tasks["tick2"].k = <<>>
    /\ now >= tickDue
    /\ tickDue' = now + TICK_MS
    /\ Commit(Spawn(W0, "tick2", TickItems, NoInput))
    /\ UNCHANGED <<userPrograms, userProgramsFile, now, doorPin, emergencyPin, hw, events>>

\* a suspended handler continues and runs to its next yield, a tick reading
\* one of `frames`
TaskStepFrom(frames) ==
    /\ proc # "exited"
    /\ \E t \in TaskIds :
          /\ Runnable(t)
          /\ \E inp \in StepInputsFrom(t, frames) : Commit(Run(W0, t, inp))
    /\ UNCHANGED <<userPrograms, userProgramsFile, now, tickDue, doorPin, emergencyPin, hw, events>>

TaskStep == TaskStepFrom(RawFrames)
TaskStepFault == TaskStepFrom(FaultFrames)

\* a suspended handler continues; the thermocouple reads of the tick and of
\* the sensor test alike return one of RawFrames
TaskStepShared ==
    /\ proc # "exited"
    /\ \E t \in TaskIds :
          /\ Runnable(t)
          /\ \E inp \in (IF hw /\ t \in {"tick", "sens"} /\ (ReadsTc1(t) \/ ReadsTc2(t))
                         THEN {[raw |-> r, noise1 |-> 0, noise2 |-> 0] : r \in RawFrames}
                         ELSE {NoInput}) :
                Commit(Run(W0, t, inp))
    /\ UNCHANGED <<userPrograms, userProgramsFile, now, tickDue, doorPin, emergencyPin, hw, events>>

\* one tick period passes while thermocouple reads fail
AdvanceErrors ==
    /\ now + TICK_MS <= MaxErrorTicks * TICK_MS
    /\ Advance(TICK_MS)

\* POST /api/errors/clear
ClearErrors ==
    /\ proc = "up"
    /\ events < MaxEvents
    /\ events' = events + 1
    /\ Commit([W0 EXCEPT !.s.errors = 0, !.hist.last = "errors_cleared"])
    /\ UNCHANGED <<userPrograms, userProgramsFile, now, tickDue, doorPin, emergencyPin, hw>>

\* POST /api/start
start(w, programId) ==
    LET id == IF programId # 0 /\ (IsBuiltin(programId) \/ IsUser(programId))
              THEN programId ELSE w.s.currentProgram
        selectedProgram == Lookup(id)
        w1 == [w EXCEPT !.s.currentProgram = id,
                        !.s.isRunning = TRUE,
                        !.s.isPaused = FALSE,
                        !.s.startTime = now,
                        !.s.elapsedTime = 0,
                        !.s.currentStep = 0,
                        !.s.totalSteps = Len(selectedProgram.steps),
                        !.s.errors = 0,
                        !.hist.resume = ResumeNone,
                        !.hist.pausedBy = "",
                        !.hist.done = DoneNone]
        rejected == w.s.isRunning \/ w.s.emergency \/ w.s.doorOpen
        \* firstStep is undefined: TypeError, answered 500
        failed == selectedProgram.steps = <<>>
        \* a program id that names no program leaves currentProgram as it was
        unknown == programId # 0 /\ ~(IsBuiltin(programId) \/ IsUser(programId))
        answer == IF rejected \/ ~selectedProgram.present \/ failed
                  THEN "start_error"
                  ELSE IF unknown THEN "started_in_place" ELSE "started"
        w2 == IF rejected THEN w
              ELSE IF ~selectedProgram.present THEN [w EXCEPT !.s.currentProgram = id]
              ELSE IF failed THEN w1
              ELSE [w1 EXCEPT !.s.temperatures.target = Deg(selectedProgram.steps[1].temp),
                              !.pid = reset(@, now)]
    IN  \* the history notes the answer and whether an error answer left a change
        [w2 EXCEPT !.hist.last =
            IF answer = "start_error" /\ (w2.s # w.s \/ w2.pid # w.pid)
            THEN "start_error_changed" ELSE answer]

StartWith(ids) ==
    /\ proc = "up"
    /\ events < MaxEvents
    /\ events' = events + 1
    /\ \E programId \in ids : Commit(start(W0, programId))
    /\ UNCHANGED <<userPrograms, userProgramsFile, now, tickDue, doorPin, emergencyPin, hw>>

Start == StartWith(StartIds)

\* POST /api/start without a program id, or with that of the user program
StartCurrent == StartWith({0})
StartUser == StartWith({7})

\* POST /api/start without a program id as soon as the server listens
StartAtBoot ==
    /\ now = 0
    /\ StartWith({0})

\* POST /api/stop
Stop ==
    /\ proc = "up"
    /\ events < MaxEvents
    /\ events' = events + 1
    /\ tasks["cmd"].k = <<>>
    /\ Commit(Spawn(W0, "cmd", StopProgramItems \o <<"respond">>, NoInput))
    /\ UNCHANGED <<userPrograms, userProgramsFile, now, tickDue, doorPin, emergencyPin, hw>>

\* the resume branch of POST /api/pause with the start reference left as it is
resumeKeepStart(w) ==
    [w EXCEPT !.s.isPaused = FALSE,
              !.hist.pausedBy = "",
              !.hist.resume = [ResumeNone EXCEPT
                    !.pending = TRUE,
                    !.elapsed = w.s.elapsedTime,
                    !.shift = 0]]

\* the resume branch of POST /api/pause
resume(w) ==
    [w EXCEPT !.s.isPaused = FALSE,
              !.s.startTime = now - (w.s.elapsedTime * MS_PER_SEC),
              !.hist.pausedBy = "",
              !.hist.resume = [ResumeNone EXCEPT
                    !.pending = TRUE,
                    !.elapsed = w.s.elapsedTime,
                    !.shift = (now - (w.s.elapsedTime * MS_PER_SEC)) - w.s.startTime]]

\* POST /api/pause
pause(w) ==
    IF ~w.s.isRunning THEN w
    ELSE IF w.s.isPaused THEN resume(w)
    ELSE Spawn([w EXCEPT !.hist.pausedBy = "cmd"], "cmd",
               PauseProgramItems \o <<"respond">>, NoInput)

Pause ==
    /\ proc = "up"
    /\ events < MaxEvents
    /\ events' = events + 1
    /\ tasks["cmd"].k = <<>>
    /\ Commit(pause(W0))
    /\ UNCHANGED <<userPrograms, userProgramsFile, now, tickDue, doorPin, emergencyPin, hw>>

\* POST /api/emergency
Emergency ==
    /\ proc = "up"
    /\ events < MaxEvents
    /\ events' = events + 1
    /\ tasks["cmd"].k = <<>>
    /\ Commit(Spawn(W0, "cmd", EmergencyStopItems \o <<"respond">>, NoInput))
    /\ UNCHANGED <<userPrograms, userProgramsFile, now, tickDue, doorPin, emergencyPin, hw>>

\* POST /api/pid/tune with three numbers out of `gains`
TuneWith(gains) ==
    /\ proc = "up"
    /\ events < MaxEvents
    /\ events' = events + 1
    /\ \E g \in gains :
          Commit([W0 EXCEPT !.pid = setParameters(@, g[1], g[2], g[3])])
    /\ UNCHANGED <<userPrograms, userProgramsFile, now, tickDue, doorPin, emergencyPin, hw>>

Tune == TuneWith(TuneGains)

\* POST /api/pid/tune {kp: 1, ki: 0, kd: 0}
TuneUnit == TuneWith(UnitGains)

\* POST /api/test/ssr up to its first yield; the history notes whether the
\* command changed the heater duty or an output while a program was running
testSsr(w) ==
    LET w1 == Spawn(w, "ssr", <<"ssr_loop", "respond">>, NoInput)
    IN  [w1 EXCEPT !.hist.last =
            IF w.s.isRunning /\ (w1.s.heaterPower # w.s.heaterPower \/ w1.pins # w.pins)
            THEN "test_acted_in_run" ELSE "test"]

\* POST /api/test/ssr
TestSsr ==
    /\ proc = "up"
    /\ events < MaxEvents
    /\ events' = events + 1
    /\ tasks["ssr"].k = <<>>
    /\ Commit(testSsr(W0))
    /\ UNCHANGED <<userPrograms, userProgramsFile, now, tickDue, doorPin, emergencyPin, hw>>

\* GET /api/test/sensors
TestSensors ==
    /\ proc = "up"
    /\ events < MaxEvents
    /\ events' = events + 1
    /\ tasks["sens"].k = <<>>
    /\ Commit(Spawn(W0, "sens", <<"t_sensors", "t_tc1", "t_tc2", "respond">>, NoInput))
    /\ UNCHANGED <<userPrograms, userProgramsFile, now, tickDue, doorPin, emergencyPin, hw>>

\* POST /api/test/vacuum
TestVacuum ==
    /\ proc = "up"
    /\ events < MaxEvents
    /\ events' = events + 1
    /\ tasks["vac"].k = <<>>
    /\ Commit(Spawn(W0, "vac", <<"vacuumTest", "sleep_vacuum", "vacOff", "respond">>, NoInput))
    /\ UNCHANGED <<userPrograms, userProgramsFile, now, tickDue, doorPin, emergencyPin, hw>>

\* the connection to the pigpio daemon is lost while no handler is in
\* progress: gpio.connected becomes false
GpioDisconnect ==
    /\ proc = "up" /\ hw
    /\ events < MaxEvents
    /\ events' = events + 1
    /\ \A t \in TaskIds : tasks[t].k = <<>>
    /\ hw' = FALSE
    /\ hist' = [hist EXCEPT !.last = ""]
    /\ UNCHANGED <<systemState, pid, pins, timers, tasks, proc, userPrograms, userProgramsFile,
                   now, tickDue, doorPin, emergencyPin>>

\* a fan timer set by stopProgram fires
FanTimer ==
    /\ proc # "exited"
    /\ tasks["fan"].k = <<>>
    /\ \E d \in timers :
          /\ now >= d
          /\ Commit(Spawn([W0 EXCEPT !.timers = @ \ {d}], "fan", <<"timer_fan">>, NoInput))
    /\ UNCHANGED <<userPrograms, userProgramsFile, now, tickDue, doorPin, emergencyPin, hw, events>>

\* process.on('SIGINT')
Sigint ==
    /\ proc # "exited"
    /\ events < MaxEvents
    /\ events' = events + 1
    /\ tasks["sigint"].k = <<>>
    /\ Commit(Run(SigintBegin(W0, "sigint"), "sigint", NoInput))
    /\ UNCHANGED <<userPrograms, userProgramsFile, now, tickDue, doorPin, emergencyPin, hw>>

\* process.on('uncaughtException')
UncaughtException ==
    /\ proc # "exited"
    /\ events < MaxEvents
    /\ events' = events + 1
    /\ tasks["uncaught"].k = <<>>
    /\ Commit(Run(UncaughtBegin(W0, "uncaught"), "uncaught", NoInput))
    /\ UNCHANGED <<userPrograms, userProgramsFile, now, tickDue, doorPin, emergencyPin, hw>>

\* bodies of POST /api/programs/save
SaveNames == {"", "Custom"}
SaveSteps == {<<>>, <<Step(700, 1, 0, 0, 0)>>, <<Step(700, 1, PosInf, 0, 0)>>}

\* POST /api/programs/save
Save ==
    /\ proc = "up"
    /\ events < MaxEvents
    /\ events' = events + 1
    /\ \E name \in SaveNames, steps \in SaveSteps :
          IF name = ""
          THEN /\ Commit([W0 EXCEPT !.hist.last = "save_rejected"])
               /\ UNCHANGED <<userPrograms, userProgramsFile>>
          ELSE /\ newId(userPrograms) \in ProgramIds
               /\ userPrograms' =
                     [userPrograms EXCEPT ![newId(userPrograms)] = UserProgram(name, steps)]
               /\ userProgramsFile' = saveUserPrograms(userPrograms')
               /\ Commit([W0 EXCEPT !.hist.last = "saved"])
    /\ UNCHANGED <<now, tickDue, doorPin, emergencyPin, hw>>

\* ids a DELETE /api/programs/:id names
DeleteIds == {1} \cup UserIds \cup {SetMax(UserIds) + 1}

\* DELETE /api/programs/:id
Delete ==
    /\ proc = "up"
    /\ events < MaxEvents
    /\ events' = events + 1
    /\ \E id \in DeleteIds :
          IF IsBuiltin(id)
          THEN /\ Commit([W0 EXCEPT !.hist.last = "delete_rejected"])
               /\ UNCHANGED <<userPrograms, userProgramsFile>>
          ELSE IF IsUser(id)
          THEN /\ userPrograms' = [userPrograms EXCEPT ![id] = Absent]
               /\ userProgramsFile' = saveUserPrograms(userPrograms')
               /\ Commit([W0 EXCEPT !.hist.last = "deleted"])
          ELSE /\ Commit([W0 EXCEPT !.hist.last = "delete_missing"])
               /\ UNCHANGED <<userPrograms, userProgramsFile>>
    /\ UNCHANGED <<now, tickDue, doorPin, emergencyPin, hw>>

\* the process is restarted: initializeAdvancedSystem loads the catalog from
\* the file; the history notes whether the catalog is the one held before
Restart ==
    /\ events < MaxEvents
    /\ events' = events + 1
    /\ userPrograms' = loadUserPrograms(userProgramsFile)
    /\ systemState' = SystemStateInit
    /\ pid' = PidInit(0)
    /\ timers' = {}
    /\ tasks' = [t \in TaskIds |-> TaskIdle]
    /\ proc' = "boot"
    /\ hist' = [HistInit EXCEPT !.last =
                    IF userPrograms' = userPrograms THEN "restarted" ELSE "restarted_changed"]
    /\ now' = 0
    /\ tickDue' = 0
    /\ UNCHANGED <<pins, userProgramsFile, doorPin, emergencyPin, hw>>

-----------------------------------------------------------------------------
(* Specifications *)

\* the control plane under commands and input changes, over a few ticks
Next ==
    \/ AdvanceTick
    \/ DoorChange
    \/ EmergencyChange
    \/ TickStart
    \/ TaskStep
    \/ Start
    \/ Stop
    \/ Pause
    \/ Emergency

Spec == Init /\ [][Next]_vars

\* a run of a user program in simulation mode, from its start to its end
InitRun == InitWith({QuickCatalog, TwoStepCatalog}, {FALSE})

NextRun ==
    \/ AdvanceTick
    \/ AdvanceRun
    \/ TickStart
    \/ StartUser

SpecRun == InitRun /\ [][NextRun]_vars

\* stops, starts and the emergency input over the life of a fan timer, with
\* the GPIO daemon connected
InitCooldown == InitWith({NoUserPrograms}, {TRUE})

NextCooldown ==
    \/ AdvanceTick
    \/ AdvanceIdle
    \/ EmergencyChange
    \/ TickStart
    \/ TaskStep
    \/ StartCurrent
    \/ Stop
    \/ FanTimer

SpecCooldown == InitCooldown /\ [][NextCooldown]_vars

\* the program catalog under saves, deletes, restarts and starts, in
\* simulation mode
InitCatalog == InitWith({NoUserPrograms}, {FALSE})

NextCatalog ==
    \/ TickStart
    \/ Start
    \/ Save
    \/ Delete
    \/ Restart

SpecCatalog == InitCatalog /\ [][NextCatalog]_vars

\* runs of user programs while the catalog is edited, in simulation mode
NextCatalogRun ==
    \/ AdvanceTick
    \/ TickStart
    \/ StartUser
    \/ Save
    \/ Delete

SpecCatalogRun == InitCatalog /\ [][NextCatalogRun]_vars

\* built-in program 1 from its start to the end of its cooldown, in
\* simulation mode
InitScenario == InitWith({NoUserPrograms}, {FALSE})

NextScenario ==
    \/ AdvanceScenario
    \/ TickStart
    \/ StartAtBoot
    \/ FanTimer

SpecScenario == InitScenario /\ [][NextScenario]_vars

\* the thermocouple reads of the sensor test, with the GPIO daemon connected
InitDecode == InitWith({NoUserPrograms}, {TRUE})

NextDecode ==
    \/ TickStart
    \/ TaskStep
    \/ TestSensors

SpecDecode == InitDecode /\ [][NextDecode]_vars

\* sensor tests between and during control ticks, with the GPIO daemon
\* connected
NextSensors ==
    \/ AdvanceTick
    \/ TickStart
    \/ TaskStepShared
    \/ TestSensors

SpecSensors == InitDecode /\ [][NextSensors]_vars

\* control ticks with a GPIO daemon that can take longer than a tick period
\* to answer
NextOverlap ==
    \/ AdvanceTick
    \/ AdvanceSlow
    \/ TickStart
    \/ TickOverlap
    \/ TaskStep

SpecOverlap == InitDecode /\ [][NextOverlap]_vars

\* ticks with failing thermocouples, with the GPIO daemon connected
NextErrors ==
    \/ AdvanceErrors
    \/ TickStart
    \/ TaskStepFault
    \/ ClearErrors

SpecErrors == InitDecode /\ [][NextErrors]_vars

\* ticks reading bus errors, 25 C and 50 C on the two thermocouples, and
\* ticks in simulation mode
FusionFrames == {0, 800, 1600}

InitFusion == InitWith({NoUserPrograms}, BOOLEAN)

NextFusion ==
    \/ AdvanceTick
    \/ TickStart
    \/ TaskStepFrom(FusionFrames)

SpecFusion == InitFusion /\ [][NextFusion]_vars

\* runs of built-in program 1 and of a user program that completes at once,
\* stopped, emergency-stopped or left to complete
InitReset == InitWith({QuickCatalog}, BOOLEAN)

NextReset ==
    \/ AdvanceTick
    \/ EmergencyChange
    \/ TickStart
    \/ TaskStep
    \/ StartCurrent
    \/ StartUser
    \/ Stop
    \/ Emergency

SpecReset == InitReset /\ [][NextReset]_vars

\* program 1 (850 C) with the furnace at 844 C to 846 C and a proportional
\* gain of 1, with the GPIO daemon connected
NextThreshold ==
    \/ AdvanceTick
    \/ TickStart
    \/ TaskStepFrom(ThresholdFrames)
    \/ StartCurrent
    \/ TuneUnit

SpecThreshold == InitDecode /\ [][NextThreshold]_vars

\* the vacuum pump under ticks, the door input, the vacuum test and a loss
\* of the GPIO daemon
NextVacuum ==
    \/ AdvanceTick
    \/ DoorChange
    \/ TickStart
    \/ TaskStep
    \/ StartCurrent
    \/ TestVacuum
    \/ GpioDisconnect

SpecVacuum == InitDecode /\ [][NextVacuum]_vars

\* the test pulses and the termination paths
NextShutdown ==
    \/ AdvanceTick
    \/ TickStart
    \/ TaskStep
    \/ StartCurrent
    \/ TestSsr
    \/ Sigint
    \/ UncaughtException

SpecShutdown == Init /\ [][NextShutdown]_vars

\* the PID regulator under tune commands
NextPid ==
    \/ AdvanceTick
    \/ TickStart
    \/ TaskStep
    \/ StartCurrent
    \/ Tune

SpecPid == Init /\ [][NextPid]_vars

-----------------------------------------------------------------------------
(* Properties *)

\* handler t is suspended at an await of readMAX6675Advanced: the chunk that
\* called it has yielded and the chunk that follows the read is the next
ReadInProgress(t) ==
    /\ hw
    /\ tasks[t].k # <<>>
    /\ Head(tasks[t].k) \in (IF t \in {"tick", "tick2"} THEN {"t_tc2", "t_fuse"}
                              ELSE IF t = "sens" THEN {"t_tc2", "respond"}
                              ELSE {})

HeaterIssues == {e \in hist.log : e.kind = "heater"}
VacuumIssues == {e \in hist.log : e.kind = "vacuum"}
TickEnded == hist.last = "tick_end"
TickLoc == tasks["tick"].loc

\* C1: heater-safety dominance.  Every heater call a control tick makes while
\* emergency or doorOpen is set leaves the recorded duty at 0 and the SSR
\* written off, whatever duty was asked for and whatever the run state, with
\* and without the GPIO daemon.
C1_HeaterSafetyDominance ==
    \A e \in HeaterIssues : e.lock => (e.duty = 0 /\ e.pin # 1)

\* a tick asked for heat while an interlock flag was set, and none was given
C1_Witness ==
    \E e \in HeaterIssues : e.lock /\ e.req > 0 /\ e.duty = 0 /\ e.pin = 0

\* C2: no heat when idle.  A control tick that finds the run not running or
\* paused issues the heater duty 0 and commands the vacuum off, and issues
\* nothing else to either.
C2_NoHeatWhenIdle ==
    (TickEnded /\ TickLoc.branch = "idle") =>
        /\ HeaterIssues # {}
        /\ VacuumIssues # {}
        /\ \A e \in hist.log : e.req = 0 /\ e.duty = 0 /\ e.pin # 1

\* the tick of a paused run has ended
C2_Witness ==
    /\ TickEnded
    /\ TickLoc.branch = "idle"
    /\ systemState.isRunning
    /\ systemState.isPaused
    /\ HeaterIssues # {}

\* C3: fault absorbs.  Once an emergency stop has ended a run, no start is
\* accepted until a stop command has been applied.
C3_FaultAbsorbs == hist.latched => ~systemState.isRunning

\* C4: executor progression.  A program completes only when the elapsed run
\* time has reached the sum of its steps' total times.
C4_CompletesAtTotal == hist.done.yes => hist.done.elapsed >= hist.done.total

\* C5: emergency during run.  When the emergency input has become active
\* during a run, the control tick that finds it active ends with the run
\* neither running nor paused, heater duty 0, vacuum off, fan on, the PID
\* reset and the emergency flag set.
C5_EmergencyWithinTick ==
    (TickEnded /\ TickLoc.sawEmergency /\ hist.emergencyInRun) =>
        /\ ~systemState.isRunning
        /\ ~systemState.isPaused
        /\ systemState.heaterPower = 0
        /\ systemState.vacuumTarget = 0
        /\ systemState.fan
        /\ hw => (pins.ssr = 0 /\ pins.vacuum = 0 /\ pins.fan = 1)
        /\ pid.integral = 0
        /\ pid.lastError = 0
        /\ systemState.emergency

\* C6: door-open pause is sticky.  The step in which a tick finds the door
\* open during a run leaves the run paused, and a paused run goes back to
\* running only by the resume branch of the pause command.
C6_DoorPauseSticky ==
    [][ /\ (TickLoc'.sawDoor /\ ~TickLoc.sawDoor) => systemState'.isPaused
        /\ (/\ systemState.isRunning /\ systemState.isPaused
            /\ systemState'.isRunning /\ ~systemState'.isPaused)
           => (events' = events + 1 /\ hist'.resume.pending) ]_vars

\* a run paused by the door is still paused at the end of a tick that has
\* read the door closed
C6_Witness ==
    /\ TickEnded
    /\ systemState.isRunning
    /\ systemState.isPaused
    /\ hist.pausedBy = "door"
    /\ ~systemState.doorOpen
    /\ doorPin = 1

\* C7: resume preserves elapsed time.  The first executeProgram after a
\* resume computes the elapsed time that was recorded when the run was
\* resumed: the time spent paused is not counted.
C7_ResumePreservesElapsed == hist.resume.checked => hist.resume.same

\* a run resumed after a pause that moved the start reference has been checked
C7_Witness ==
    /\ hist.resume.checked
    /\ hist.resume.same
    /\ hist.resume.shift >= TICK_MS

\* C8: sensor-loss escalation.  A tick that is the third in a row of a run
\* to obtain no sample from either thermocouple ends with the run stopped.
C8_SensorLossFault ==
    (TickEnded /\ hist.noSample = MaxNoSample) =>
        (~systemState.isRunning /\ systemState.heaterPower = 0 /\ systemState.fan)

\* C9: PID clamp.  Every output of calculate is within [0, 100] and the
\* integral stays within [-50, 50].
C9_PidClamp ==
    /\ hist.pidOut >= 0
    /\ hist.pidOut <= OUTPUT_MAX * 10
    /\ pid.integral >= IntegralLo
    /\ pid.integral <= IntegralHi

\* C10: shutdown safety.  When the process has exited, the SSR output is off.
C10_HeaterOffAtExit == proc = "exited" => pins.ssr = 0

\* C11: command-time rejections do not mutate state.  A start command that is
\* answered with an error leaves systemState and the PID regulator exactly as
\* they were before the command.
C11_RejectedStartKeepsState == hist.last # "start_error_changed"

\* C12: built-in programs are immutable.  After any sequence of saves and
\* deletes every built-in id resolves to its original name and steps, both at
\* a start and in the executor; a delete of a built-in id changes nothing; and
\* a save gives the new program an id greater than every id that existed.
C12_BuiltinsImmutable ==
    /\ [](\A id \in DOMAIN programs :
            LET original == UserProgram(programs[id].name, programs[id].steps)
            IN  Lookup(id) = original /\ Merged(id) = original)
    /\ [][/\ hist'.last = "delete_rejected" => userPrograms' = userPrograms
          /\ hist'.last = "saved" =>
                \A i \in ProgramIds :
                    (userPrograms'[i] # userPrograms[i]) =>
                        /\ ~userPrograms[i].present
                        /\ \A j \in CatalogKeys(userPrograms) : i > j]_vars

\* two user programs have been saved and a delete of a built-in id was rejected
C12_Witness ==
    /\ hist.last = "delete_rejected"
    /\ userPrograms[7].present
    /\ userPrograms[8].present

\* C17: every program has at least one step.  No program of the catalog has
\* an empty step list.
C17_ProgramsHaveSteps ==
    \A id \in ProgramIds : userPrograms[id].present => userPrograms[id].steps # <<>>

\* C18: persistence round-trip.  A restart yields the catalog that was held
\* before it: every saved program with the same name and steps.
C18_PersistenceRoundTrip == hist.last # "restarted_changed"

\* the run of program 1 started at time 0 against a completion time `total`
\* (seconds of elapsed run time): the target is 850 from the start; the run is
\* over by the tick at which `total` has elapsed, where it completes; from
\* then until 300 s have passed the heater duty is 0 and the fan is on; after
\* that the fan is off and the controller idle
Scenario1(total) ==
    /\ (hist.last = "started" /\ systemState.currentProgram = 1) =>
            systemState.temperatures.target = Deg(850)
    /\ (TickEnded /\ systemState.isRunning /\ systemState.currentProgram = 1) =>
            systemState.elapsedTime < total
    /\ hist.done.yes => hist.done.elapsed = total
    /\ (hist.done.yes /\ hist.stopAt # NULL /\ now - hist.stopAt < FAN_OFF_DELAY_MS) =>
            (~systemState.isRunning /\ systemState.heaterPower = 0 /\ systemState.fan)
    /\ (hist.done.yes /\ hist.stopAt # NULL /\ now - hist.stopAt > FAN_OFF_DELAY_MS) =>
            (~systemState.isRunning /\ ~systemState.fan)

\* C13: scenario 1 as the specification words it.  Program 1 completes after
\* (0 + 25 + 5) x 60 = 1800 s of elapsed run time.
C13_Scenario1 == Scenario1((0 + 25 + 5) * SEC_PER_MIN)

\* C13, amended: scenario 1 with the ramp of program 1 counted.  Program 1
\* completes after (15 + 25 + 5) x 60 = 2700 s of elapsed run time.
C13_Scenario1WithRamp == Scenario1((15 + 25 + 5) * SEC_PER_MIN)

\* program 1 has completed and its cooldown is over
C13_Witness ==
    /\ hist.done.yes
    /\ systemState.currentProgram = 1
    /\ hist.stopAt # NULL
    /\ now - hist.stopAt > FAN_OFF_DELAY_MS
    /\ ~systemState.fan

\* C14: cooldown timing.  While less than five minutes have passed since the
\* most recent stop and no program is running, the fan is on.
C14_CooldownTiming ==
    (hist.stopAt # NULL /\ ~systemState.isRunning /\ now - hist.stopAt < FAN_OFF_DELAY_MS) =>
        systemState.fan

\* C15: test commands require not Running.  A test command issued while a
\* program is running changes neither the heater duty nor an output.
C15_TestOnlyWhenNotRunning == hist.last # "test_acted_in_run"

\* C16: commands never take effect mid-tick.  Every heater or vacuum call by
\* which a control tick asks for actuation (a positive duty, vacuum on) is
\* made while the run the tick is executing is still running and not paused:
\* no command has replaced that run state between the tick's steps.
C16_NoCommandMidTick == \A e \in hist.log : e.req > 0 => e.run

C20_BoundedErrorLog ==
    /\ systemState.errors <= 2^6
    /\ hist.last = "errors_cleared" => systemState.errors = 0

\* C29: a start command whose program id names no program of the
\* catalog is rejected and starts nothing; the previously selected program
\* is not started in its place.
C29_UnknownIdStartsNothing == hist.last # "started_in_place"

\* C21: every control tick of a run that is running and not paused asks the
\* heater for the duty the PID computed in that tick and applies the step's
\* vacuum setting, also after catalog commands (a delete of the program that
\* is being run among them).
C21_RunningTickDrives ==
    (TickEnded /\ systemState.isRunning /\ ~systemState.isPaused) =>
        /\ \E e \in HeaterIssues : e.run /\ e.req = hist.pidOut
        /\ \E e \in VacuumIssues : e.run

\* C24: sensor fusion.  The step of a tick that stores its two readings makes
\* the current temperature their mean when both are valid, the valid one
\* when one is, and leaves it when none is; the stored reading of a channel
\* becomes the reading when that is valid and stays otherwise; no other step
\* changes any of the three.
C24_SensorFusion ==
    [][LET fuses == IF hw
                    THEN /\ tasks["tick"].k # <<>>
                         /\ Head(tasks["tick"].k) = "t_fuse"
                         /\ tasks'["tick"] # tasks["tick"]
                    ELSE now' = now /\ tickDue' # tickDue
           tc1Reading == IF hw THEN tasks["tick"].loc.tc1 ELSE tasks'["tick"].loc.tc1
           tc2Reading == IF hw THEN tasks["tick"].loc.tc2 ELSE tasks'["tick"].loc.tc2
           old == systemState.temperatures
           new == systemState'.temperatures
       IN  IF fuses
           THEN /\ new.tc1 = IF tc1Reading # NULL THEN tc1Reading ELSE old.tc1
                /\ new.tc2 = IF tc2Reading # NULL THEN tc2Reading ELSE old.tc2
                /\ new.current =
                      IF tc1Reading # NULL /\ tc2Reading # NULL
                      THEN (tc1Reading + tc2Reading) \div 2
                      ELSE IF tc1Reading # NULL THEN tc1Reading
                      ELSE IF tc2Reading # NULL THEN tc2Reading
                      ELSE old.current
           ELSE /\ new.tc1 = old.tc1
                /\ new.tc2 = old.tc2
                /\ new.current = old.current]_vars

\* a tick has read 25 C and 50 C and made 37.5 C of them, and the next has
\* read two bus errors and kept all three values
C24_Witness ==
    /\ hw /\ TickEnded
    /\ TickLoc.tc1 = NULL /\ TickLoc.tc2 = NULL
    /\ systemState.temperatures.tc1 = Deg(25)
    /\ systemState.temperatures.tc2 = Deg(50)
    /\ systemState.temperatures.current = (Deg(25) + Deg(50)) \div 2

\* C25: PID reset contract.  Right after a program start, after stopProgram
\* (called by the stop command or by the tick that completes the program)
\* and after emergencyStop, the PID integral and last error are 0 and the
\* time of its last calculate is the present time.
C25_PidResetContract ==
    LET resetNow == pid.integral = 0 /\ pid.lastError = 0 /\ pid.lastTime = now
    IN  /\ hist.last \in {"started", "started_in_place"} => resetNow
        /\ hist.last = "stopped" => resetNow
        /\ hist.last = "emergency_stopped" => resetNow
        /\ (TickEnded /\ hist.done.yes /\ hist.stopAt = now) => resetNow

\* a tick later than the start of the run has computed a duty and then
\* completed the program and stopped it
C25_Witness ==
    /\ TickEnded /\ hist.done.yes /\ hist.stopAt = now
    /\ systemState.currentProgram = 7 /\ now > 0 /\ hist.pidOut > 0
    /\ pid.integral = 0 /\ pid.lastTime = now

\* C23: heater threshold.  A heater call made with no interlock flag set
\* records the duty asked for, clamped to 0..100, and with the GPIO daemon
\* writes the SSR on for a duty of 5 or more and off for a duty below 5.
C23_HeaterThreshold ==
    \A e \in HeaterIssues :
        ~e.lock =>
            /\ e.duty = Max2(0, Min2(100 * 10, e.req))
            /\ hw => (e.pin = 1 <=> e.req >= 5 * 10)

\* C28: interlock debounce.  doorOpen and emergency are set only when the
\* input has been low on two consecutive ticks, and a tick pauses or
\* emergency-stops a run only then.
C28_InterlockDebounce ==
    /\ systemState.doorOpen => hist.doorLow >= 2
    /\ systemState.emergency => hist.emergencyLow >= 2
    /\ (TickEnded /\ TickLoc.sawDoor) => hist.doorLow >= 2
    /\ (TickEnded /\ TickLoc.sawEmergency) => hist.emergencyLow >= 2

\* C22: vacuum interlock gating.  A vacuum call made while emergency or
\* doorOpen is set leaves the vacuum target at 0 and the pump written off,
\* with and without the GPIO daemon; a call made by a running, unpaused
\* program with no flag set leaves the pump on with a target below 0 when it
\* enables, and off with target 0 when it disables (the pump being looked at
\* while no vacuum test writes it).
C22_VacuumInterlock ==
    \A e \in VacuumIssues :
        /\ e.lock => (e.duty = 0 /\ e.pin # 1)
        /\ (~e.lock /\ e.run /\ e.req = 1) =>
              (e.duty < 0 /\ (tasks["vac"].k = <<>> => e.pin # 0))
        /\ (~e.lock /\ e.run /\ e.req = 0) =>
              (e.duty = 0 /\ (tasks["vac"].k = <<>> => e.pin # 1))

\* C26: serialized thermocouple reads.  At no time are two handlers both
\* inside a thermocouple frame read, which clocks the shared CLK line.
C26_SerializedReads ==
    \A t1, t2 \in TaskIds :
        (ReadInProgress(t1) /\ ReadInProgress(t2)) => t1 = t2

\* C27: single control task.  At most one execution of the control tick body
\* is in progress at any time.
C27_SingleControlTask ==
    ~(tasks["tick"].k # <<>> /\ tasks["tick2"].k # <<>>)

====
